---- MODULE Spec2Model ----
(***************************************************************************)
(* The RSS feed endpoint of the blog, src/pages/feed/blog.xml.js.          *)
(*                                                                         *)
(* The module globs ../blog/*.md eagerly when it is evaluated, keeps the   *)
(* loaded post modules in the module-level constant `posts`, and exports   *)
(* `get`, which maps the posts to feed items and hands the feed descriptor *)
(* to the RSS serializer (@astrojs/rss, an asynchronous external call).    *)
(*                                                                         *)
(* Values are modelled as JavaScript has them: a front-matter block is a   *)
(* function from the keys it holds to their values, and reading a key it   *)
(* does not hold yields Undefined.                                         *)
(***************************************************************************)
EXTENDS Integers, Sequences, FiniteSets, TLC

\* ------------------------------------------------------------------ bounds
\* Most content files the blog directory holds at once.
MaxFiles == 2
\* Most feed requests issued in one behaviour.
MaxRequests == 2

\* ------------------------------------------------------------- JS values
\* The JavaScript value `undefined`.
Undefined == "undefined"

\* obj[key] in JavaScript: the value of an own property, undefined otherwise.
Prop(obj, key) == IF key \in DOMAIN obj THEN obj[key] ELSE Undefined

\* The sequence s without its i-th element.
RemoveAt(s, i) == SubSeq(s, 1, i - 1) \o SubSeq(s, i + 1, Len(s))

\* ---------------------------------------------------------- content store
\* The content files an author may keep under src/pages/blog/. The first two
\* are the files of the repository; the others are files an author could add:
\* one repeating the title and date of an existing post, one without a title,
\* one without a publishedAt, one whose publishedAt is not a date.
ContentFiles ==
    { [path |-> "../blog/bootstrapping-d1.md",
       frontmatter |-> [layout |-> "../../layouts/Post.astro",
                        title |-> "Bootstrapping your D1 Database With D1-ORM",
                        image |-> "/images/bootstrap-d1/icon",
                        publishedAt |-> "2022-11-18",
                        category |-> "Cloudflare Workers, D1, SQL"]],
      [path |-> "../blog/esbuild-on-the-edge.md",
       frontmatter |-> [layout |-> "../../layouts/Post.astro",
                        title |-> "Running Esbuild on the Edge",
                        image |-> "/images/esbuild-edge/icon",
                        publishedAt |-> "2022-11-17",
                        category |-> "Cloudflare Workers, WebAssembly"]],
      [path |-> "../blog/esbuild-repost.md",
       frontmatter |-> [layout |-> "../../layouts/Post.astro",
                        title |-> "Running Esbuild on the Edge",
                        image |-> "/images/esbuild-edge/icon",
                        publishedAt |-> "2022-11-17",
                        category |-> "Cloudflare Workers, WebAssembly"]],
      [path |-> "../blog/untitled.md",
       frontmatter |-> [publishedAt |-> "2022-11-18"]],
      [path |-> "../blog/undated.md",
       frontmatter |-> [title |-> "Notes"]],
      [path |-> "../blog/draft.md",
       frontmatter |-> [title |-> "Draft", publishedAt |-> "soon"]] }

\* The route a page file is served at: src/pages/blog/<name>.md -> /blog/<name>.
UrlOf(path) ==
    CASE path = "../blog/bootstrapping-d1.md" -> "/blog/bootstrapping-d1"
      [] path = "../blog/esbuild-on-the-edge.md" -> "/blog/esbuild-on-the-edge"
      [] path = "../blog/esbuild-repost.md" -> "/blog/esbuild-repost"
      [] path = "../blog/untitled.md" -> "/blog/untitled"
      [] path = "../blog/undated.md" -> "/blog/undated"
      [] path = "../blog/draft.md" -> "/blog/draft"

\* The values import.meta.env.SITE may hold: the configured base URL, or
\* undefined when astro.config sets no site.
Sites == {"https://interactions.rest", Undefined}

\* The paths of the files of a directory.
Paths(dir) == {f.path : f \in dir}

\* What the blog directory can hold: sets of content files (each path names
\* one file).
Stores == {d \in SUBSET ContentFiles : Cardinality(d) <= MaxFiles}

\* The orders in which a scan may enumerate the files of a directory: each
\* file once, in any order.
Listings(dir) ==
    {l \in [1..Cardinality(dir) -> dir] : \A i, j \in DOMAIN l : l[i] = l[j] => i = j}

\* ------------------------------------------------------------ module state
VARIABLES
    store,             \* the blog directory: the content files it holds
    site,              \* import.meta.env.SITE
    postImportResult,  \* line 3: <<path, module>> entries of the eager glob
    posts,             \* line 4: the loaded post modules
    reqs,              \* the feed requests issued so far, in order of issue
    edited,            \* history: the store was edited since the latest request
    repeated           \* history: the latest request found the store as the
                       \* request before it had found it

vars == <<store, site, postImportResult, posts, reqs, edited, repeated>>

\* The module a Markdown page file is imported as: its front-matter and the
\* route it is served at.
LoadModule(file) ==
    [file |-> file.path, url |-> UrlOf(file.path), frontmatter |-> file.frontmatter]

\* import.meta.glob("../blog/*.md", { eager: true }) over the listing a scan
\* of the directory gave: an object with one entry per matching file, keyed
\* by path, in enumeration order.
Glob(listing) ==
    [i \in 1..Len(listing) |-> <<listing[i].path, LoadModule(listing[i])>>]

\* Object.values: the property values in property order (the keys are paths,
\* never integer-like, so property order is insertion order).
ObjectValues(obj) == [i \in 1..Len(obj) |-> obj[i][2]]

\* FeedItem reading the date under the feed's key instead of the front-matter's.
FeedItemWrongDateKey(post) ==
    [link |-> post.url,
     title |-> Prop(post.frontmatter, "title"),
     pubDate |-> Prop(post.frontmatter, "pubDate")]

\* FeedItem substituting a default for a missing title.
FeedItemDefaultTitle(post) ==
    [link |-> post.url,
     title |-> IF "title" \in DOMAIN post.frontmatter
               THEN post.frontmatter["title"] ELSE "Untitled",
     pubDate |-> Prop(post.frontmatter, "publishedAt")]

\* Lines 11-15, the map callback: one feed item per post.
FeedItem(post) ==
    [link |-> post.url,
     title |-> Prop(post.frontmatter, "title"),
     pubDate |-> Prop(post.frontmatter, "publishedAt")]

\* The position of a publishedAt value in date order (0: no date).
DateRank(d) ==
    CASE d = "2022-11-17" -> 1
      [] d = "2022-11-18" -> 2
      [] OTHER -> 0

\* The elements of s at the indices f keeps, in order.
RECURSIVE Filter(_, _)
Filter(s, keep) ==
    IF s = <<>> THEN <<>>
    ELSE LET rest == Filter(SubSeq(s, 1, Len(s) - 1), keep)
         IN  IF Len(s) \in keep THEN Append(rest, s[Len(s)]) ELSE rest

\* The items sorted newest first (stable).
RECURSIVE NewestFirst(_)
NewestFirst(s) ==
    IF s = <<>> THEN <<>>
    ELSE LET m == CHOOSE i \in DOMAIN s :
                    /\ \A j \in DOMAIN s : DateRank(s[i].pubDate) >= DateRank(s[j].pubDate)
                    /\ \A j \in 1..(i - 1) : DateRank(s[j].pubDate) < DateRank(s[i].pubDate)
         IN  <<s[m]>> \o NewestFirst(RemoveAt(s, m))

\* FeedItems dropping an item whose title and date repeat an earlier item's.
FeedItemsDeduplicated(ps) ==
    LET all == [i \in 1..Len(ps) |-> FeedItem(ps[i])]
    IN  Filter(all, {i \in DOMAIN all :
                        \A j \in 1..(i - 1) :
                            \/ all[j].title # all[i].title
                            \/ all[j].pubDate # all[i].pubDate})

\* FeedItems sorting the items by publish date, newest first.
FeedItemsNewestFirst(ps) == NewestFirst([i \in 1..Len(ps) |-> FeedItem(ps[i])])

\* FeedItems putting a placeholder item into a feed that would be empty.
FeedItemsNeverEmpty(ps) ==
    IF ps = <<>>
    THEN <<[link |-> "/", title |-> Undefined, pubDate |-> Undefined]>>
    ELSE [i \in 1..Len(ps) |-> FeedItem(ps[i])]

\* Lines 11-15: posts.map(...). Array.prototype.map gives a new array of the
\* same length, the callback applied to each element in index order; the
\* receiver is not modified.
FeedItems(ps) == [i \in 1..Len(ps) |-> FeedItem(ps[i])]

\* FeedDescriptor globbing the blog directory anew instead of reading posts.
FeedDescriptorReloading ==
    [title |-> "Interactions.Rest Blog",
     description |-> "A blog about Workers and web development",
     site |-> site,
     items |-> FeedItems(ObjectValues(Glob(CHOOSE l \in Listings(store) : TRUE)))]

\* FeedDescriptor falling back to a default when SITE is not configured.
FeedDescriptorDefaultSite ==
    [title |-> "Interactions.Rest Blog",
     description |-> "A blog about Workers and web development",
     site |-> IF site = Undefined THEN "https://interactions.rest" ELSE site,
     items |-> FeedItems(posts)]

\* Lines 7-16: the argument object get passes to rss().
FeedDescriptor ==
    [title |-> "Interactions.Rest Blog",
     description |-> "A blog about Workers and web development",
     site |-> site,
     items |-> FeedItems(posts)]

TypeOK ==
    /\ store \in Stores
    /\ site \in Sites
    /\ posts = ObjectValues(postImportResult)
    /\ Len(reqs) <= MaxRequests
    /\ edited \in BOOLEAN
    /\ repeated \in BOOLEAN

\* The state once the module has been evaluated (lines 3-4) against whatever
\* the blog directory held then.
Init ==
    /\ store \in Stores
    /\ site \in Sites
    /\ \E listing \in Listings(store) :
        /\ postImportResult = Glob(listing)
        /\ posts = ObjectValues(Glob(listing))
    /\ reqs = <<>>
    /\ edited = FALSE
    /\ repeated = FALSE

\* An author adds a content file to the blog directory.
AddFile ==
    \E f \in ContentFiles :
        /\ Cardinality(store) < MaxFiles
        /\ f.path \notin Paths(store)
        /\ store' = store \cup {f}
        /\ edited' = (reqs # <<>>)
        /\ UNCHANGED <<site, postImportResult, posts, reqs, repeated>>

\* An author removes a content file from the blog directory.
RemoveFile ==
    \E f \in store :
        /\ store' = store \ {f}
        /\ edited' = (reqs # <<>>)
        /\ UNCHANGED <<site, postImportResult, posts, reqs, repeated>>

\* The sequence s back to front.
Reverse(s) == [i \in 1..Len(s) |-> s[Len(s) + 1 - i]]

\* get reversing the module's post list in place before mapping it.
getReversing ==
    /\ Len(reqs) < MaxRequests
    /\ posts' = Reverse(posts)
    /\ reqs' = Append(reqs, [desc |-> [title |-> "Interactions.Rest Blog",
                                       description |-> "A blog about Workers and web development",
                                       site |-> site,
                                       items |-> FeedItems(Reverse(posts))],
                             status |-> "pending"])
    /\ edited' = FALSE
    /\ repeated' = (reqs # <<>> /\ ~edited)
    /\ UNCHANGED <<store, site, postImportResult>>

\* get taking the first post off the module's post list once it is mapped.
getShifting ==
    /\ Len(reqs) < MaxRequests
    /\ posts' = IF posts = <<>> THEN posts ELSE Tail(posts)
    /\ reqs' = Append(reqs, [desc |-> [title |-> "Interactions.Rest Blog",
                                       description |-> "A blog about Workers and web development",
                                       site |-> site,
                                       items |-> FeedItems(posts)],
                             status |-> "pending"])
    /\ edited' = FALSE
    /\ repeated' = (reqs # <<>> /\ ~edited)
    /\ UNCHANGED <<store, site, postImportResult>>

\* get globbing the blog directory again on every request.
getReloading ==
    /\ Len(reqs) < MaxRequests
    /\ postImportResult' = Glob(CHOOSE l \in Listings(store) : TRUE)
    /\ posts' = ObjectValues(Glob(CHOOSE l \in Listings(store) : TRUE))
    /\ reqs' = Append(reqs, [desc |-> [title |-> "Interactions.Rest Blog",
                                       description |-> "A blog about Workers and web development",
                                       site |-> site,
                                       items |-> FeedItems(ObjectValues(
                                           Glob(CHOOSE l \in Listings(store) : TRUE)))],
                             status |-> "pending"])
    /\ edited' = FALSE
    /\ repeated' = (reqs # <<>> /\ ~edited)
    /\ UNCHANGED <<store, site>>

\* Lines 6-16: a feed request. get builds the descriptor synchronously and
\* calls rss() with it; the serializer's promise is still pending.
get ==
    /\ Len(reqs) < MaxRequests
    /\ reqs' = Append(reqs, [desc |-> FeedDescriptor, status |-> "pending"])
    /\ edited' = FALSE
    /\ repeated' = (reqs # <<>> /\ ~edited)
    /\ UNCHANGED <<store, site, postImportResult, posts>>

\* The front-matter value is a date the RSS formatter can format.
IsDate(d) == d \in {"2022-11-17", "2022-11-18"}

\* The Feed Serializer fails on the descriptor: some item carries a pubDate
\* that is present but is not a date. Missing fields are not a failure: they
\* pass into the output feed.
RssRejects(desc) ==
    \E i \in DOMAIN desc.items :
        /\ desc.items[i].pubDate # Undefined
        /\ ~IsDate(desc.items[i].pubDate)

\* Line 7: the promise of rss() of some pending request resolves and the
\* document for the descriptor it was given is delivered.
respond ==
    \E r \in DOMAIN reqs :
        /\ reqs[r].status = "pending"
        /\ ~RssRejects(reqs[r].desc)
        /\ reqs' = [reqs EXCEPT ![r].status = "done"]
        /\ UNCHANGED <<store, site, postImportResult, posts, edited, repeated>>

\* Line 7: the promise of rss() of some pending request is rejected; get
\* catches nothing, so the request ends in an error.
reject ==
    \E r \in DOMAIN reqs :
        /\ reqs[r].status = "pending"
        /\ RssRejects(reqs[r].desc)
        /\ reqs' = [reqs EXCEPT ![r].status = "failed"]
        /\ UNCHANGED <<store, site, postImportResult, posts, edited, repeated>>

Next == AddFile \/ RemoveFile \/ get \/ respond \/ reject

Spec == Init /\ [][Next]_vars

\* -------------------------------------------------------------- properties
\* The step is a feed request: get has appended a request.
IsGet == Len(reqs') = Len(reqs) + 1

\* The descriptor the feed request of this step has built.
NewDesc == reqs'[Len(reqs')].desc

\* The item carries exactly the post's url, title and publishedAt.
Matches(item, post) ==
    /\ item.link = post.url
    /\ item.title = Prop(post.frontmatter, "title")
    /\ item.pubDate = Prop(post.frontmatter, "publishedAt")

\* The paths of the files the glob loaded when the module was evaluated.
LoadedPaths == {postImportResult[i][1] : i \in DOMAIN postImportResult}

\* C1 as stated: at every feed request, every Post the Content Store holds at
\* that moment has a FeedItem in the descriptor with exactly its url, title
\* and publishedAt.
C1_EveryStoredPostHasItem ==
    [][IsGet =>
        \A f \in store :
            \E i \in DOMAIN NewDesc.items :
                Matches(NewDesc.items[i], LoadModule(f))]_vars

\* C1 amended: for every feed request and every Post loaded from the Content
\* Store when the module was evaluated, the descriptor holds a FeedItem whose
\* link, title and pubDate exactly equal that Post's url, front-matter title
\* and front-matter publishedAt.
C1_EveryLoadedPostHasItem ==
    \A r \in DOMAIN reqs :
        \A k \in DOMAIN posts :
            \E i \in DOMAIN reqs[r].desc.items :
                Matches(reqs[r].desc.items[i], posts[k])

\* C1 witness: the latest request has been answered for a module that had
\* loaded a post, the store having gained another file before that request.
C1_Witness ==
    /\ posts # <<>>
    /\ Paths(store) \ LoadedPaths # {}
    /\ reqs # <<>>
    /\ ~edited
    /\ reqs[Len(reqs)].status = "done"

\* C2 as stated: at every feed request the number of FeedItems equals the
\* number of content files the Content Store holds at that moment.
C2_CountIsStoreCount ==
    [][IsGet => Len(NewDesc.items) = Cardinality(store)]_vars

\* C2 amended: every descriptor holds as many FeedItems as the glob loaded
\* content files when the module was evaluated; no Post is filtered out and
\* Posts with the same title and date are both kept.
C2_CountIsLoadedCount ==
    \A r \in DOMAIN reqs : Len(reqs[r].desc.items) = Len(postImportResult)

\* C2 witness: a request was issued for a module that loaded two posts with
\* the same title and publishedAt, with the store now holding another count.
C2_Witness ==
    /\ reqs # <<>>
    /\ Len(posts) = 2
    /\ posts[1].frontmatter = posts[2].frontmatter
    /\ Cardinality(store) # Len(posts)
    /\ ~edited

\* C3 as stated: the items of every feed request are derived from the store
\* (from a scan of it, in whatever order the scan enumerates)
\* contents as they are at that request.
C3_ItemsFromStoreAtRequest ==
    [][IsGet =>
        \E listing \in Listings(store) :
            NewDesc.items = FeedItems(ObjectValues(Glob(listing)))]_vars

\* C3 amended: the posts appearing in a request's feed are exactly the posts
\* of the files present when the module was evaluated: a file added since
\* then is absent from the feed and a file removed since then still appears.
C3_ItemsFromStoreAtLoad ==
    \A r \in DOMAIN reqs :
        {reqs[r].desc.items[i].link : i \in DOMAIN reqs[r].desc.items}
            = {UrlOf(p) : p \in LoadedPaths}

\* C3 witness: the latest request was issued after one file had been added
\* to the store and another removed from it since the module was evaluated.
C3_Witness ==
    /\ reqs # <<>>
    /\ ~edited
    /\ Paths(store) \ LoadedPaths # {}
    /\ LoadedPaths \ Paths(store) # {}

\* C4: every descriptor has the fixed title and description and carries the
\* configured site value as it is.
C4_ChannelFields ==
    \A r \in DOMAIN reqs :
        /\ reqs[r].desc.title = "Interactions.Rest Blog"
        /\ reqs[r].desc.description = "A blog about Workers and web development"
        /\ reqs[r].desc.site = site

\* C4 witness: requests have been answered with no site configured, the
\* store being non-empty when the module was evaluated and empty now.
C4_Witness ==
    /\ site = Undefined
    /\ posts # <<>>
    /\ store = {}
    /\ \E r \in DOMAIN reqs : reqs[r].status = "done"

\* C5: when the latest request found the store as the request before it had
\* found it, the two requests built the same descriptor.
C5_Idempotent ==
    repeated => reqs[Len(reqs)].desc = reqs[Len(reqs) - 1].desc

\* C5 witness: two consecutive requests over an unchanged store of two posts,
\* both answered.
C5_Witness ==
    /\ repeated
    /\ Len(posts) = 2
    /\ \A r \in DOMAIN reqs : reqs[r].status = "done"

\* C6 as stated: a feed request issued while the Content Store is empty
\* ends without an error and yields the fixed channel fields and no items.
\* (With requests issued and no edit since the latest one, the store is as
\* that request found it.)
C6_EmptyStoreEmptyFeed ==
    (reqs # <<>> /\ ~edited /\ store = {}) =>
        /\ reqs[Len(reqs)].status # "failed"
        /\ ~RssRejects(reqs[Len(reqs)].desc)
        /\ reqs[Len(reqs)].desc.items = <<>>
        /\ reqs[Len(reqs)].desc.title = "Interactions.Rest Blog"
        /\ reqs[Len(reqs)].desc.description = "A blog about Workers and web development"

\* C6 amended: when the Content Store was empty as the module was evaluated,
\* every feed request ends without an error (the serializer is handed
\* nothing it rejects, so a pending request can only resolve) and yields the
\* fixed channel fields and an empty items sequence.
C6_EmptyLoadEmptyFeed ==
    postImportResult = <<>> =>
        \A r \in DOMAIN reqs :
            /\ reqs[r].status # "failed"
            /\ ~RssRejects(reqs[r].desc)
            /\ reqs[r].desc.items = <<>>
            /\ reqs[r].desc.title = "Interactions.Rest Blog"
            /\ reqs[r].desc.description = "A blog about Workers and web development"

\* C6 witness: a request over a store that was and is empty has been answered.
C6_Witness ==
    /\ postImportResult = <<>>
    /\ store = {}
    /\ \E r \in DOMAIN reqs : reqs[r].status = "done"

\* C7: the i-th FeedItem of every descriptor carries the fields of the i-th
\* loaded Post, for every i, whatever the publish dates are.
C7_EnumerationOrder ==
    \A r \in DOMAIN reqs :
        /\ Len(reqs[r].desc.items) = Len(posts)
        /\ \A i \in DOMAIN posts : Matches(reqs[r].desc.items[i], posts[i])

\* C7 witness: a feed whose first item is dated before its second item, so
\* not in newest-first order.
C7_Witness ==
    \E r \in DOMAIN reqs :
        /\ Len(reqs[r].desc.items) = 2
        /\ DateRank(reqs[r].desc.items[1].pubDate) > 0
        /\ DateRank(reqs[r].desc.items[1].pubDate)
               < DateRank(reqs[r].desc.items[2].pubDate)

\* C8: no step reloads the content files: the glob result and the post list
\* stay as module evaluation left them, and all requests issued so far carry
\* the same items.
C8_LoadedOnce ==
    [][/\ postImportResult' = postImportResult
       /\ posts' = posts
       /\ \A q, r \in DOMAIN reqs' : reqs'[q].desc.items = reqs'[r].desc.items]_vars

\* C8 witness: two requests with a store edit between them, the store now
\* differing from what the module loaded.
C8_Witness ==
    /\ Len(reqs) = 2
    /\ ~repeated
    /\ ~edited
    /\ Paths(store) # LoadedPaths
    /\ posts # <<>>

\* C9: a Post lacking title or publishedAt still yields its FeedItem, at its
\* own position, with the url as link and the missing field undefined, and
\* the Posts having both fields yield items with both fields.
C9_MissingFieldsPropagate ==
    \A r \in DOMAIN reqs :
        /\ Len(reqs[r].desc.items) = Len(posts)
        /\ \A i \in DOMAIN posts :
            LET item == reqs[r].desc.items[i]
                fm == posts[i].frontmatter
            IN  /\ item.link = posts[i].url
                /\ "title" \notin DOMAIN fm => item.title = Undefined
                /\ "publishedAt" \notin DOMAIN fm => item.pubDate = Undefined
                /\ "title" \in DOMAIN fm => item.title = fm["title"]
                /\ "publishedAt" \in DOMAIN fm => item.pubDate = fm["publishedAt"]

\* C9 witness: an answered request over a post without a title and a post
\* without a publishedAt.
C9_Witness ==
    /\ \E i \in DOMAIN posts : "title" \notin DOMAIN posts[i].frontmatter
    /\ \E i \in DOMAIN posts : "publishedAt" \notin DOMAIN posts[i].frontmatter
    /\ \E r \in DOMAIN reqs : reqs[r].status = "done"

\* C10: a feed request leaves the post list and the glob result as they were
\* and builds the descriptor a request run alone builds, and no step changes
\* the descriptor of a request issued earlier.
C10_ReadOnly ==
    [][/\ \A r \in DOMAIN reqs : reqs'[r].desc = reqs[r].desc
       /\ IsGet => /\ posts' = posts
                   /\ postImportResult' = postImportResult
                   /\ NewDesc = FeedDescriptor]_vars

\* C10 witness: two requests in flight together, the later one answered
\* before the earlier one.
C10_Witness ==
    /\ Len(reqs) = 2
    /\ reqs[1].status = "pending"
    /\ reqs[2].status = "done"
    /\ posts # <<>>

====
